---- MODULE Spec2Model ----
(* Greenlight movie API: the data layer (MovieModel over the movies table), *)
(* the movie handlers, and the rateLimit / recoverPanic middleware.         *)
EXTENDS Integers, Sequences, FiniteSets, Bags, TLC

(***************************************************************************)
(* Bounds of the model                                                     *)
(***************************************************************************)
\* updateMovieHandler calls that can be between their Get and their Update at
\* the same time
MaxInFlight == 2
\* ids the bigserial sequence hands out before the model stops inserting
MaxId == 2
\* versions above this are not produced (the update is not taken)
MaxVersion == 3

(***************************************************************************)
(* Values                                                                  *)
(***************************************************************************)
\* a nil pointer / nil slice is None, a set one is Some(v)
None == <<>>
Some(v) == <<v>>

NilErr == "nil"
ErrRecordNotFound == "record not found"
ErrEditConflict == "edit conflict"
\* any other error database/sql hands back (lost connection, cancelled context)
ErrDriver == "driver error"
\* the error readIDParam / readJSON return
ErrBadInput == "bad input"

\* version of a freshly inserted row
InitialVersion == 1
\* time.Now().Year()
CurrentYear == 2026

\* type Movie struct (CreatedAt is never read by the code modelled here)
Movie(id, title, year, runtime, genres, version) ==
    [ID |-> id, Title |-> title, Year |-> year, Runtime |-> runtime,
     Genres |-> genres, Version |-> version]

(***************************************************************************)
(* internal/validator                                                      *)
(***************************************************************************)
NoErrors == <<>>

AddError(errs, key, msg) ==
    IF key \in DOMAIN errs THEN errs ELSE (key :> msg) @@ errs

Check(errs, ok, key, msg) ==
    IF ok THEN errs ELSE AddError(errs, key, msg)

Valid(errs) == DOMAIN errs = {}

Unique(values) ==
    \A i, j \in 1..Len(values) : values[i] = values[j] => i = j

\* len(movie.Genres): 0 for a nil slice
GenresLen(g) == IF g = None THEN 0 ELSE Len(g[1])

GenresUnique(g) == IF g = None THEN TRUE ELSE Unique(g[1])

\* ValidateMovie that lets a year after the current one pass
ValidateMovie_NoFutureCheck(movie) ==
    LET e1  == Check(NoErrors, movie.Title # "", "title", "must be provided")
        e2  == Check(e1, Len(movie.Title) <= 500, "title", "must not be more than 500 bytes long")
        e3  == Check(e2, movie.Year # 0, "year", "must be provided")
        e4  == Check(e3, movie.Year >= 1888, "year", "must be greater than 1888")
        e6  == Check(e4, movie.Runtime # 0, "runtime", "must be provided")
        e7  == Check(e6, movie.Runtime > 0, "runtime", "must be a positive integer")
        e8  == Check(e7, movie.Genres # None, "genres", "must be provided")
        e9  == Check(e8, GenresLen(movie.Genres) >= 1, "genres", "must contain at least 1 genre")
        e10 == Check(e9, GenresLen(movie.Genres) <= 5, "genres", "must not contain more than 5 genres")
        e11 == Check(e10, GenresUnique(movie.Genres), "genres", "must not contain duplicate values")
    IN  e11

ValidateMovie(movie) ==
    LET e1  == Check(NoErrors, movie.Title # "", "title", "must be provided")
        e2  == Check(e1, Len(movie.Title) <= 500, "title", "must not be more than 500 bytes long")
        e3  == Check(e2, movie.Year # 0, "year", "must be provided")
        e4  == Check(e3, movie.Year >= 1888, "year", "must be greater than 1888")
        e5  == Check(e4, movie.Year <= CurrentYear, "year", "must not be in the future")
        e6  == Check(e5, movie.Runtime # 0, "runtime", "must be provided")
        e7  == Check(e6, movie.Runtime > 0, "runtime", "must be a positive integer")
        e8  == Check(e7, movie.Genres # None, "genres", "must be provided")
        e9  == Check(e8, GenresLen(movie.Genres) >= 1, "genres", "must contain at least 1 genre")
        e10 == Check(e9, GenresLen(movie.Genres) <= 5, "genres", "must not contain more than 5 genres")
        e11 == Check(e10, GenresUnique(movie.Genres), "genres", "must not contain duplicate values")
    IN  e11

\* validator.PermittedValue(value, list...)
PermittedValue(value, list) == \E i \in 1..Len(list) : value = list[i]

\* strings.HasPrefix and strings.TrimPrefix
HasPrefix(str, prefix) ==
    Len(str) >= Len(prefix) /\ SubSeq(str, 1, Len(prefix)) = prefix

TrimPrefix(str, prefix) ==
    IF HasPrefix(str, prefix) THEN SubSeq(str, Len(prefix) + 1, Len(str)) ELSE str

\* type Filters struct
Filters(page, pageSize, sort, sortSafelist) ==
    [Page |-> page, PageSize |-> pageSize, Sort |-> sort,
     SortSafelist |-> sortSafelist]

limit(f) == f.PageSize

offset(f) == (f.Page - 1) * f.PageSize

\* the column to sort by; the method panics for a Sort outside the safelist
sortColumn(f) ==
    IF PermittedValue(f.Sort, f.SortSafelist)
    THEN [panics |-> FALSE, column |-> TrimPrefix(f.Sort, "-")]
    ELSE [panics |-> TRUE, column |-> ""]

sortDirection(f) == IF HasPrefix(f.Sort, "-") THEN "DESC" ELSE "ASC"

\* ValidateFilters that bounds the page size by the bound of the page
ValidateFilters_PageSizeBound(f) ==
    LET e1 == Check(NoErrors, f.Page > 0, "page", "must be greater than zero")
        e2 == Check(e1, f.Page <= 10000000, "page", "must be a maximum of 10 million")
        e3 == Check(e2, f.PageSize > 0, "page_size", "must be greater than zero")
        e4 == Check(e3, f.PageSize <= 10000000, "page_size", "must be a maximum of 100")
        e5 == Check(e4, PermittedValue(f.Sort, f.SortSafelist), "sort", "invalid sort value")
    IN  e5

ValidateFilters(f) ==
    LET e1 == Check(NoErrors, f.Page > 0, "page", "must be greater than zero")
        e2 == Check(e1, f.Page <= 10000000, "page", "must be a maximum of 10 million")
        e3 == Check(e2, f.PageSize > 0, "page_size", "must be greater than zero")
        e4 == Check(e3, f.PageSize <= 100, "page_size", "must be a maximum of 100")
        e5 == Check(e4, PermittedValue(f.Sort, f.SortSafelist), "sort", "invalid sort value")
    IN  e5

(***************************************************************************)
(* MovieModel: the SQL statements over the movies table.  `ms` is the      *)
(* table (a function from the ids of the stored rows to the rows), `fault` *)
(* says that the driver failed before the statement ran.                   *)
(***************************************************************************)
Row(id, title, year, runtime, genres, version) ==
    [id |-> id, title |-> title, year |-> year, runtime |-> runtime,
     genres |-> genres, version |-> version]

\* Insert into a table whose rows start at version 0
Insert_VersionZero(ms, seq, movie, fault) ==
    IF fault
    THEN [movies |-> ms, seq |-> seq, movie |-> movie, err |-> ErrDriver]
    ELSE LET row == Row(seq, movie.Title, movie.Year, movie.Runtime,
                        movie.Genres, 0)
         IN  [movies |-> (seq :> row) @@ ms,
              seq    |-> seq + 1,
              movie  |-> [movie EXCEPT !.ID = row.id, !.Version = row.version],
              err    |-> NilErr]

\* INSERT ... RETURNING id, created_at, version
Insert(ms, seq, movie, fault) ==
    IF fault
    THEN [movies |-> ms, seq |-> seq, movie |-> movie, err |-> ErrDriver]
    ELSE LET row == Row(seq, movie.Title, movie.Year, movie.Runtime,
                        movie.Genres, InitialVersion)
         IN  [movies |-> (seq :> row) @@ ms,
              seq    |-> seq + 1,
              movie  |-> [movie EXCEPT !.ID = row.id, !.Version = row.version],
              err    |-> NilErr]

\* Get that scans year and runtime in the wrong order
Get_SwapsYearRuntime(ms, id, fault) ==
    IF id < 1
    THEN [movie |-> None, err |-> ErrRecordNotFound]
    ELSE IF fault
    THEN [movie |-> None, err |-> ErrDriver]
    ELSE IF id \notin DOMAIN ms
    THEN [movie |-> None, err |-> ErrRecordNotFound]
    ELSE LET row == ms[id]
         IN  [movie |-> Some(Movie(row.id, row.title, row.runtime, row.year,
                                   row.genres, row.version)),
              err   |-> NilErr]

\* SELECT ... WHERE id = $1
Get(ms, id, fault) ==
    IF id < 1
    THEN [movie |-> None, err |-> ErrRecordNotFound]
    ELSE IF fault
    THEN [movie |-> None, err |-> ErrDriver]
    ELSE IF id \notin DOMAIN ms
    THEN [movie |-> None, err |-> ErrRecordNotFound]
    ELSE LET row == ms[id]
         IN  [movie |-> Some(Movie(row.id, row.title, row.year, row.runtime,
                                   row.genres, row.version)),
              err   |-> NilErr]

\* UpdateMatches without the version in the WHERE clause
UpdateMatches_NoVersion(ms, movie) ==
    {i \in DOMAIN ms : ms[i].id = movie.ID}

\* the rows UPDATE ... WHERE id = $5 AND version = $6 selects
UpdateMatches(ms, movie) ==
    {i \in DOMAIN ms : ms[i].id = movie.ID /\ ms[i].version = movie.Version}

\* Update whose SET list leaves out genres
Update_DropsGenres(ms, movie, fault) ==
    IF fault
    THEN [movies |-> ms, movie |-> movie, err |-> ErrDriver]
    ELSE IF UpdateMatches(ms, movie) = {}
    THEN [movies |-> ms, movie |-> movie, err |-> ErrEditConflict]
    ELSE LET newms == [i \in DOMAIN ms |->
                         IF i \in UpdateMatches(ms, movie)
                         THEN Row(ms[i].id, movie.Title, movie.Year, movie.Runtime,
                                  ms[i].genres, ms[i].version + 1)
                         ELSE ms[i]]
             i0 == CHOOSE i \in UpdateMatches(ms, movie) : TRUE
         IN  [movies |-> newms,
              movie  |-> [movie EXCEPT !.Version = newms[i0].version],
              err    |-> NilErr]

\* Update that does not look for sql.ErrNoRows
Update_NoRowsAsNil(ms, movie, fault) ==
    IF fault
    THEN [movies |-> ms, movie |-> movie, err |-> ErrDriver]
    ELSE IF UpdateMatches(ms, movie) = {}
    THEN [movies |-> ms, movie |-> movie, err |-> NilErr]
    ELSE LET newms == [i \in DOMAIN ms |->
                         IF i \in UpdateMatches(ms, movie)
                         THEN Row(ms[i].id, movie.Title, movie.Year, movie.Runtime,
                                  movie.Genres, ms[i].version + 1)
                         ELSE ms[i]]
             i0 == CHOOSE i \in UpdateMatches(ms, movie) : TRUE
         IN  [movies |-> newms,
              movie  |-> [movie EXCEPT !.Version = newms[i0].version],
              err    |-> NilErr]

\* UPDATE ... SET ..., version = version + 1 WHERE id = $5 AND version = $6
\* RETURNING version
Update(ms, movie, fault) ==
    IF fault
    THEN [movies |-> ms, movie |-> movie, err |-> ErrDriver]
    ELSE IF UpdateMatches(ms, movie) = {}
    THEN [movies |-> ms, movie |-> movie, err |-> ErrEditConflict]
    ELSE LET newms == [i \in DOMAIN ms |->
                         IF i \in UpdateMatches(ms, movie)
                         THEN Row(ms[i].id, movie.Title, movie.Year, movie.Runtime,
                                  movie.Genres, ms[i].version + 1)
                         ELSE ms[i]]
             i0 == CHOOSE i \in UpdateMatches(ms, movie) : TRUE
         IN  [movies |-> newms,
              movie  |-> [movie EXCEPT !.Version = newms[i0].version],
              err    |-> NilErr]

\* Delete that does not look at RowsAffected()
Delete_NoRowCheck(ms, id, fault) ==
    IF id < 1
    THEN [movies |-> ms, err |-> ErrRecordNotFound]
    ELSE IF fault
    THEN [movies |-> ms, err |-> ErrDriver]
    ELSE LET hit == {i \in DOMAIN ms : ms[i].id = id}
         IN  [movies |-> [i \in DOMAIN ms \ hit |-> ms[i]], err |-> NilErr]

\* DELETE FROM movies WHERE id = $1, then RowsAffected()
Delete(ms, id, fault) ==
    IF id < 1
    THEN [movies |-> ms, err |-> ErrRecordNotFound]
    ELSE IF fault
    THEN [movies |-> ms, err |-> ErrDriver]
    ELSE LET hit == {i \in DOMAIN ms : ms[i].id = id}
             rowsAffected == Cardinality(hit)
         IN  IF rowsAffected = 0
             THEN [movies |-> ms, err |-> ErrRecordNotFound]
             ELSE [movies |-> [i \in DOMAIN ms \ hit |-> ms[i]], err |-> NilErr]

\* the rows with the ids `ids`, scanned into Movie structs in descending id
\* order
RECURSIVE OrderById_Descending(_, _)
OrderById_Descending(ms, ids) ==
    IF ids = {}
    THEN <<>>
    ELSE LET hi == CHOOSE i \in ids : \A j \in ids : j <= i
             row == ms[hi]
         IN  <<Movie(row.id, row.title, row.year, row.runtime, row.genres,
                     row.version)>>
             \o OrderById_Descending(ms, ids \ {hi})

\* the rows with the ids `ids` as ORDER BY id yields them, each scanned into
\* a Movie struct
RECURSIVE OrderById(_, _)
OrderById(ms, ids) ==
    IF ids = {}
    THEN <<>>
    ELSE LET lo == CHOOSE i \in ids : \A j \in ids : i <= j
             row == ms[lo]
         IN  <<Movie(row.id, row.title, row.year, row.runtime, row.genres,
                     row.version)>>
             \o OrderById(ms, ids \ {lo})

\* GetAll over a query that orders the rows the other way round
GetAll_Descending(ms, title, genres, filters, fault) ==
    IF fault
    THEN [movies |-> None, err |-> ErrDriver]
    ELSE [movies |-> Some(OrderById_Descending(ms, DOMAIN ms)), err |-> NilErr]

\* SELECT ... FROM movies ORDER BY id: title, genres and filters are not
\* used by the query.  movies: None is the nil slice, Some(<<>>) the empty one
GetAll(ms, title, genres, filters, fault) ==
    IF fault
    THEN [movies |-> None, err |-> ErrDriver]
    ELSE [movies |-> Some(OrderById(ms, DOMAIN ms)), err |-> NilErr]

(***************************************************************************)
(* cmd/api: helpers of the handlers                                        *)
(***************************************************************************)
\* the :id URL parameter: text that is no number, or a number
BadParam == [readable |-> FALSE, id |-> 0]
NumParam(n) == [readable |-> TRUE, id |-> n]

readIDParam(param) ==
    IF param.readable
    THEN [id |-> param.id, err |-> NilErr]
    ELSE [id |-> 0, err |-> ErrBadInput]

\* a request body: JSON that does not decode, or the decoded input struct
BadBody == [decodes |-> FALSE, input |-> None]
Body(input) == [decodes |-> TRUE, input |-> Some(input)]

readJSON(body) ==
    IF body.decodes
    THEN [input |-> body.input, err |-> NilErr]
    ELSE [input |-> None, err |-> ErrBadInput]

\* the response helpers, named as in the handlers, with the status they send
notFoundResponse == [helper |-> "notFoundResponse", status |-> 404]
editConflictResponse == [helper |-> "editConflictResponse", status |-> 409]
serverErrorResponse == [helper |-> "serverErrorResponse", status |-> 500]
badRequestResponse == [helper |-> "badRequestResponse", status |-> 400]
failedValidationResponse == [helper |-> "failedValidationResponse", status |-> 422]
rateLimitExceededResponse == [helper |-> "rateLimitExceededResponse", status |-> 429]
writeJSON(status) == [helper |-> "writeJSON", status |-> status]

\* strconv.FormatInt(n, base) for n >= 0
DigitChars ==
    <<"0", "1", "2", "3", "4", "5", "6", "7", "8", "9", "a", "b", "c", "d",
      "e", "f", "g", "h", "i", "j", "k", "l", "m", "n", "o", "p", "q", "r",
      "s", "t", "u", "v", "w", "x", "y", "z">>

RECURSIVE FormatInt(_, _)
FormatInt(n, base) ==
    IF n < base
    THEN DigitChars[n + 1]
    ELSE FormatInt(n \div base, base) \o DigitChars[(n % base) + 1]

(***************************************************************************)
(* Inputs the clients send                                                 *)
(***************************************************************************)
Params == {BadParam} \cup {NumParam(n) : n \in 0..MaxId}

ExpectedVersionHeaders == {"", "1"}

\* the input struct of updateMovieHandler: nil pointers are None
UpdateInput(title, year, runtime, genres) ==
    [Title |-> title, Year |-> year, Runtime |-> runtime, Genres |-> genres]

UpdateBodies ==
    { BadBody,
      Body(UpdateInput(Some("Brazil"), Some(1985), None, Some(<<"scifi", "drama">>))),
      Body(UpdateInput(None, None, Some(97), None)),
      Body(UpdateInput(None, None, Some(-1), None)) }

\* the input struct of createMovieHandler
CreateInput(title, year, runtime, genres) ==
    [Title |-> title, Year |-> year, Runtime |-> runtime, Genres |-> genres]

CreateBodies ==
    { BadBody,
      Body(CreateInput("Alien", 1979, 117, Some(<<"horror">>))),
      Body(CreateInput("", 1979, 117, Some(<<"horror">>))) }

\* the arguments of GetAll: the title and genres to filter by, the page, the
\* page size and the sort key
TitleFilters == {"", "Brazil"}

GenreFilters == {<<>>, <<"drama">>}

\* the safelist listMoviesHandler sets
MoviesSortSafelist ==
    <<"id", "title", "year", "runtime", "-id", "-title", "-year", "-runtime">>

ListFilters ==
    { Filters(page, pageSize, sort, MoviesSortSafelist) :
        page \in {1, 2}, pageSize \in {1, 20}, sort \in {"id", "-id", "-year"} }

\* a title of n bytes
RECURSIVE TitleOfLen(_)
TitleOfLen(n) ==
    IF n = 0
    THEN ""
    ELSE IF n % 2 = 0
    THEN LET half == TitleOfLen(n \div 2) IN half \o half
    ELSE "a" \o TitleOfLen(n - 1)

\* the movies ValidateMovie is applied to: each check at and beyond its bound
ValidatedMovies ==
    { Movie(0, title, year, runtime, genres, 0) :
        title \in {"", "Alien", TitleOfLen(500), TitleOfLen(501)},
        year \in {-1, 0, 1887, 1888, CurrentYear, CurrentYear + 1},
        runtime \in {-1, 0, 1},
        genres \in {None, Some(<<>>), Some(<<"horror">>),
                    Some(<<"horror", "horror">>),
                    Some(<<"a", "b", "c", "d", "e">>),
                    Some(<<"a", "b", "c", "d", "e", "f">>)} }

\* the filters ValidateFilters is applied to
ValidatedFilters ==
    { Filters(page, pageSize, sort, MoviesSortSafelist) :
        page \in {-1, 0, 1, 10000000, 10000001},
        pageSize \in {-1, 0, 1, 100, 101},
        sort \in {"id", "-id", "-runtime", "", "-", "rating"} }

\* highest stored version the X-Expected-Version check is applied to
MaxHeaderVersion == 12

\* the X-Expected-Version headers: none, and the numerals of the versions in
\* base 10 and in base 32
VersionHeaders ==
    {""} \cup {FormatInt(v, 10) : v \in 1..MaxHeaderVersion}
         \cup {FormatInt(v, 32) : v \in 1..MaxHeaderVersion}

\* the table after movie 1 was created and updated v - 1 times by the body
\* that sets the runtime
StoredAtVersion(v) ==
    1 :> Row(1, "Alien", 1979, IF v = InitialVersion THEN 117 ELSE 97,
             Some(<<"horror">>), v)

(***************************************************************************)
(* State                                                                   *)
(***************************************************************************)
VARIABLES
    movies,      \* the movies table: id of a stored row -> the row
    nextId,      \* next value of the bigserial sequence of movies.id
    req,         \* the updateMovieHandler calls between their Get and their Update:
                 \* the bag of the movies they read
    last,        \* the last handler step: its request, model call, responses
    won,         \* per id: the versions an Update that returned nil had read
    nUpdateNil,  \* per id: number of Update calls that returned nil
    nUpdate200   \* per id: number of 200 responses of updateMovieHandler

dbvars == <<movies, nextId, req, last, won, nUpdateNil, nUpdate200>>

VARIABLES
    fn           \* the last call of a function that works on its arguments
                 \* alone: its name, its arguments, its result

\* a record of one MovieModel call; ran: the statement reached the database
Call(op, id, arg, res, err, ran) ==
    [op |-> op, id |-> id, arg |-> arg, res |-> res, err |-> err, ran |-> ran]

NoCall == Call("none", 0, None, None, NilErr, FALSE)

\* a record of one handler step: `done` says that the handler returned;
\* read: the movie an update had read, input: the decoded body, location: the
\* Location header, body: the movie in the response envelope (None: not set)
Step(kind, idErr, call, responses, done) ==
    [kind |-> kind, idErr |-> idErr, call |-> call,
     responses |-> responses, done |-> done,
     read |-> None, input |-> None, location |-> None, body |-> None]

NoStep == Step("none", FALSE, NoCall, <<>>, FALSE)

DbInit ==
    /\ movies = <<>>
    /\ nextId = 1
    /\ req = EmptyBag
    /\ last = NoStep
    /\ won = [i \in 1..MaxId |-> {}]
    /\ nUpdateNil = [i \in 1..MaxId |-> 0]
    /\ nUpdate200 = [i \in 1..MaxId |-> 0]

NoFn == [op |-> "none", arg |-> None, res |-> None]

FnInit == fn = NoFn

(***************************************************************************)
(* cmd/api: the movie handlers.  Each operator is the handler's code from  *)
(* the request to the responses it writes; `call` is the MovieModel call   *)
(* it made (NoCall when it returned before calling the model).             *)
(***************************************************************************)
showMovieHandler(ms, param, fault) ==
    LET p == readIDParam(param)
        g == Get(ms, p.id, fault)
        call == Call("Get", p.id, None, g.movie, g.err, p.id >= 1 /\ ~fault)
    IN  IF p.err # NilErr
        THEN [responses |-> <<notFoundResponse>>, idErr |-> TRUE, call |-> NoCall]
        ELSE IF g.err # NilErr
        THEN IF g.err = ErrRecordNotFound
             THEN [responses |-> <<notFoundResponse>>, idErr |-> FALSE, call |-> call]
             ELSE [responses |-> <<serverErrorResponse>>, idErr |-> FALSE, call |-> call]
        ELSE [responses |-> <<writeJSON(200)>>, idErr |-> FALSE, call |-> call]

\* deleteMovieHandler that answers every model error with 500
deleteMovieHandler_AllErrors500(ms, param, fault) ==
    LET p == readIDParam(param)
        d == Delete(ms, p.id, fault)
        call == Call("Delete", p.id, None, None, d.err, p.id >= 1 /\ ~fault)
    IN  IF p.err # NilErr
        THEN [responses |-> <<notFoundResponse>>, idErr |-> TRUE, call |-> NoCall,
              movies |-> ms]
        ELSE IF d.err # NilErr
        THEN [responses |-> <<serverErrorResponse>>, idErr |-> FALSE, call |-> call,
              movies |-> d.movies]
        ELSE [responses |-> <<writeJSON(200)>>, idErr |-> FALSE, call |-> call,
              movies |-> d.movies]

deleteMovieHandler(ms, param, fault) ==
    LET p == readIDParam(param)
        d == Delete(ms, p.id, fault)
        call == Call("Delete", p.id, None, None, d.err, p.id >= 1 /\ ~fault)
    IN  IF p.err # NilErr
        THEN [responses |-> <<notFoundResponse>>, idErr |-> TRUE, call |-> NoCall,
              movies |-> ms]
        ELSE IF d.err # NilErr
        THEN IF d.err = ErrRecordNotFound
             THEN [responses |-> <<notFoundResponse>>, idErr |-> FALSE, call |-> call,
                   movies |-> d.movies]
             ELSE [responses |-> <<serverErrorResponse>>, idErr |-> FALSE, call |-> call,
                   movies |-> d.movies]
        ELSE [responses |-> <<writeJSON(200)>>, idErr |-> FALSE, call |-> call,
              movies |-> d.movies]

\* updateMovieHandler up to and including the X-Expected-Version check:
\* `proceed` says that the handler goes on to read the body
updateMovieGet(ms, param, header, fault) ==
    LET p == readIDParam(param)
        g == Get(ms, p.id, fault)
        call == Call("Get", p.id, None, g.movie, g.err, p.id >= 1 /\ ~fault)
    IN  IF p.err # NilErr
        THEN [proceed |-> FALSE, responses |-> <<notFoundResponse>>, idErr |-> TRUE,
              call |-> NoCall, movie |-> None]
        ELSE IF g.err # NilErr
        THEN IF g.err = ErrRecordNotFound
             THEN [proceed |-> FALSE, responses |-> <<notFoundResponse>>,
                   idErr |-> FALSE, call |-> call, movie |-> None]
             ELSE [proceed |-> FALSE, responses |-> <<serverErrorResponse>>,
                   idErr |-> FALSE, call |-> call, movie |-> None]
        ELSE IF header # "" /\ FormatInt(g.movie[1].Version, 32) # header
        THEN [proceed |-> FALSE, responses |-> <<editConflictResponse>>,
              idErr |-> FALSE, call |-> call, movie |-> g.movie]
        ELSE [proceed |-> TRUE, responses |-> <<>>, idErr |-> FALSE,
              call |-> call, movie |-> g.movie]

\* a partial update that forgets to copy the year
ApplyInput_SkipsYear(movie, input) ==
    LET m1 == IF input.Title # None THEN [movie EXCEPT !.Title = input.Title[1]] ELSE movie
        m3 == IF input.Runtime # None THEN [m1 EXCEPT !.Runtime = input.Runtime[1]] ELSE m1
        m4 == IF input.Genres # None THEN [m3 EXCEPT !.Genres = input.Genres] ELSE m3
    IN  m4

\* the partial update: a field of the input that is not nil replaces the
\* field of the movie read from the table
ApplyInput(movie, input) ==
    LET m1 == IF input.Title # None THEN [movie EXCEPT !.Title = input.Title[1]] ELSE movie
        m2 == IF input.Year # None THEN [m1 EXCEPT !.Year = input.Year[1]] ELSE m1
        m3 == IF input.Runtime # None THEN [m2 EXCEPT !.Runtime = input.Runtime[1]] ELSE m2
        m4 == IF input.Genres # None THEN [m3 EXCEPT !.Genres = input.Genres] ELSE m3
    IN  m4

\* updateMovieHandler from reading the body to the response
updateMovieWrite(ms, movie, body, fault) ==
    LET j == readJSON(body)
        m == ApplyInput(movie, j.input[1])
        u == Update(ms, m, fault)
        call == Call("Update", m.ID, Some(m), Some(u.movie), u.err, ~fault)
    IN  IF j.err # NilErr
        THEN [responses |-> <<badRequestResponse>>, call |-> NoCall, movies |-> ms,
              movie |-> movie]
        ELSE IF ~Valid(ValidateMovie(m))
        THEN [responses |-> <<failedValidationResponse>>, call |-> NoCall,
              movies |-> ms, movie |-> m]
        ELSE IF u.err # NilErr
        THEN IF u.err = ErrEditConflict
             THEN [responses |-> <<editConflictResponse>>, call |-> call,
                   movies |-> u.movies, movie |-> u.movie]
             ELSE [responses |-> <<serverErrorResponse>>, call |-> call,
                   movies |-> u.movies, movie |-> u.movie]
        ELSE [responses |-> <<writeJSON(200)>>, call |-> call,
              movies |-> u.movies, movie |-> u.movie]

\* fmt.Sprintf("/v1/movies/%d", id)
LocationOf(id) == "/v1/movies/" \o FormatInt(id, 10)

\* createMovieHandler that inserts first and validates afterwards
createMovieHandler_InsertBeforeValidate(ms, seq, body, fault) ==
    LET j == readJSON(body)
        input == j.input[1]
        m == Movie(0, input.Title, input.Year, input.Runtime, input.Genres, 0)
        i == Insert(ms, seq, m, fault)
        call == Call("Insert", 0, Some(m), Some(i.movie), i.err, ~fault)
    IN  IF j.err # NilErr
        THEN [responses |-> <<badRequestResponse>>, call |-> NoCall, movies |-> ms,
              seq |-> seq, location |-> None, body |-> None]
        ELSE IF i.err # NilErr
        THEN [responses |-> <<serverErrorResponse>>, call |-> call,
              movies |-> i.movies, seq |-> i.seq, location |-> None, body |-> None]
        ELSE IF ~Valid(ValidateMovie(m))
        THEN [responses |-> <<failedValidationResponse>>, call |-> call,
              movies |-> i.movies, seq |-> i.seq, location |-> None, body |-> None]
        ELSE [responses |-> <<writeJSON(201)>>, call |-> call, movies |-> i.movies,
              seq |-> i.seq, location |-> Some(LocationOf(i.movie.ID)),
              body |-> Some(i.movie)]

\* createMovieHandler that builds the Location header before Insert has set
\* movie.ID
createMovieHandler_LocationBeforeInsert(ms, seq, body, fault) ==
    LET j == readJSON(body)
        input == j.input[1]
        m == Movie(0, input.Title, input.Year, input.Runtime, input.Genres, 0)
        i == Insert(ms, seq, m, fault)
        call == Call("Insert", 0, Some(m), Some(i.movie), i.err, ~fault)
    IN  IF j.err # NilErr
        THEN [responses |-> <<badRequestResponse>>, call |-> NoCall, movies |-> ms,
              seq |-> seq, location |-> None, body |-> None]
        ELSE IF ~Valid(ValidateMovie(m))
        THEN [responses |-> <<failedValidationResponse>>, call |-> NoCall,
              movies |-> ms, seq |-> seq, location |-> None, body |-> None]
        ELSE IF i.err # NilErr
        THEN [responses |-> <<serverErrorResponse>>, call |-> call,
              movies |-> i.movies, seq |-> i.seq, location |-> None, body |-> None]
        ELSE [responses |-> <<writeJSON(201)>>, call |-> call, movies |-> i.movies,
              seq |-> i.seq, location |-> Some(LocationOf(m.ID)),
              body |-> Some(i.movie)]

createMovieHandler(ms, seq, body, fault) ==
    LET j == readJSON(body)
        input == j.input[1]
        m == Movie(0, input.Title, input.Year, input.Runtime, input.Genres, 0)
        i == Insert(ms, seq, m, fault)
        call == Call("Insert", 0, Some(m), Some(i.movie), i.err, ~fault)
    IN  IF j.err # NilErr
        THEN [responses |-> <<badRequestResponse>>, call |-> NoCall, movies |-> ms,
              seq |-> seq, location |-> None, body |-> None]
        ELSE IF ~Valid(ValidateMovie(m))
        THEN [responses |-> <<failedValidationResponse>>, call |-> NoCall,
              movies |-> ms, seq |-> seq, location |-> None, body |-> None]
        ELSE IF i.err # NilErr
        THEN [responses |-> <<serverErrorResponse>>, call |-> call,
              movies |-> i.movies, seq |-> i.seq, location |-> None, body |-> None]
        ELSE [responses |-> <<writeJSON(201)>>, call |-> call, movies |-> i.movies,
              seq |-> i.seq, location |-> Some(LocationOf(i.movie.ID)),
              body |-> Some(i.movie)]

(***************************************************************************)
(* Actions: one per handler call; updateMovieHandler takes two steps, its  *)
(* SELECT and its UPDATE being separate statements that other requests can *)
(* come between.  `faults` holds the values of `fault` the environment can *)
(* produce: {FALSE} for a database that executes every statement, BOOLEAN  *)
(* for one whose driver can fail.                                          *)
(***************************************************************************)
ShowMovie(faults) ==
    /\ \E param \in Params, fault \in faults :
         LET h == showMovieHandler(movies, param, fault)
         IN  last' = Step("show", h.idErr, h.call, h.responses, TRUE)
    /\ UNCHANGED <<movies, nextId, req, won, nUpdateNil, nUpdate200>>

DeleteMovie(faults) ==
    /\ \E param \in Params, fault \in faults :
         LET h == deleteMovieHandler(movies, param, fault)
         IN  /\ movies' = h.movies
             /\ last' = Step("delete", h.idErr, h.call, h.responses, TRUE)
    /\ UNCHANGED <<nextId, req, won, nUpdateNil, nUpdate200>>

CreateMovie(faults) ==
    /\ nextId <= MaxId
    /\ \E body \in CreateBodies, fault \in faults :
         LET h == createMovieHandler(movies, nextId, body, fault)
         IN  /\ movies' = h.movies
             /\ nextId' = h.seq
             /\ last' = [Step("create", FALSE, h.call, h.responses, TRUE)
                           EXCEPT !.input = body.input, !.location = h.location,
                                  !.body = h.body]
    /\ UNCHANGED <<req, won, nUpdateNil, nUpdate200>>

UpdateMovieGet(faults) ==
    /\ BagCardinality(req) < MaxInFlight
    /\ \E param \in Params, header \in ExpectedVersionHeaders, fault \in faults :
         LET h == updateMovieGet(movies, param, header, fault)
         IN  /\ last' = Step("update", h.idErr, h.call, h.responses, ~h.proceed)
             /\ req' = IF h.proceed THEN req (+) SetToBag({h.movie[1]}) ELSE req
    /\ UNCHANGED <<movies, nextId, won, nUpdateNil, nUpdate200>>

UpdateMovieWrite(faults) ==
    /\ \E read \in BagToSet(req), body \in UpdateBodies, fault \in faults :
         LET h == updateMovieWrite(movies, read, body, fault)
             ok == h.call.op = "Update" /\ h.call.err = NilErr
             n200 == Cardinality({k \in 1..Len(h.responses) :
                                    h.responses[k] = writeJSON(200)})
         IN  /\ ok => h.movie.Version <= MaxVersion
             /\ movies' = h.movies
             /\ req' = req (-) SetToBag({read})
             /\ last' = [Step("update", FALSE, h.call, h.responses, TRUE)
                           EXCEPT !.read = Some(read), !.input = body.input]
             /\ won' = IF ok THEN [won EXCEPT ![read.ID] = @ \cup {read.Version}]
                       ELSE won
             /\ nUpdateNil' = IF ok THEN [nUpdateNil EXCEPT ![read.ID] = @ + 1]
                              ELSE nUpdateNil
             /\ nUpdate200' = [nUpdate200 EXCEPT ![read.ID] = @ + n200]
    /\ UNCHANGED nextId

\* a call of MovieModel.GetAll (no handler of the repository calls it yet)
GetAllMovies(faults) ==
    /\ \E title \in TitleFilters, genres \in GenreFilters,
          filters \in ListFilters, fault \in faults :
         LET g == GetAll(movies, title, genres, filters, fault)
             arg == [title |-> title, genres |-> genres, filters |-> filters]
         IN  last' = Step("GetAll", FALSE,
                          Call("GetAll", 0, Some(arg), g.movies, g.err, ~fault),
                          <<>>, TRUE)
    /\ UNCHANGED <<movies, nextId, req, won, nUpdateNil, nUpdate200>>

(***************************************************************************)
(* cmd/api middleware: rateLimit.  Time is counted in ticks, tokens in     *)
(* units of 1/TicksPerSecond token, so that one tick refills Rate units.   *)
(***************************************************************************)
\* rate.NewLimiter(2, 4): tokens refilled per second, and the bucket size
Rate == 2
Burst == 4

\* ticks of the clock in one second
TicksPerSecond == 4
\* the clock stops at this tick
MaxTime == 6
\* requests that can arrive within one tick
MaxArrivals == 6

TokenUnit == TicksPerSecond
BurstUnits == Burst * TokenUnit

Min(a, b) == IF a <= b THEN a ELSE b

\* advance that does not stop at the bucket size
Advance_NoCap(lim, t) ==
    lim.tokens + (t - lim.last) * Rate

\* Limiter.advance: the tokens available at time t
Advance(lim, t) ==
    Min(BurstUnits, lim.tokens + (t - lim.last) * Rate)

\* Allow that wants a token left over after taking one
Allow_OffByOne(lim, t) ==
    LET tokens == Advance(lim, t) - TokenUnit
    IN  IF tokens > 0
        THEN [ok |-> TRUE, lim |-> [tokens |-> tokens, last |-> t]]
        ELSE [ok |-> FALSE, lim |-> lim]

\* Limiter.Allow at time t: takes one token if there is one
Allow(lim, t) ==
    LET tokens == Advance(lim, t) - TokenUnit
    IN  IF tokens >= 0
        THEN [ok |-> TRUE, lim |-> [tokens |-> tokens, last |-> t]]
        ELSE [ok |-> FALSE, lim |-> lim]

\* the handler rateLimit returns, serving one request at time t
rateLimit(lim, t) ==
    LET a == Allow(lim, t)
    IN  IF ~a.ok
        THEN [lim |-> a.lim, responses |-> <<rateLimitExceededResponse>>, next |-> 0]
        ELSE [lim |-> a.lim, responses |-> <<>>, next |-> 1]

(***************************************************************************)
(* cmd/api middleware: recoverPanic.  `nx` is what the wrapped handler     *)
(* did: the headers it set, the responses it wrote, whether it panicked.   *)
(***************************************************************************)
NextRun(panics, responses, headers) ==
    [panics |-> panics, responses |-> responses, headers |-> headers]

NextRuns ==
    { NextRun(p, r, h) :
        p \in BOOLEAN,
        r \in {<<>>, <<writeJSON(200)>>, <<notFoundResponse>>},
        h \in {<<>>, ("Connection" :> "keep-alive"), ("Vary" :> "Origin")} }

\* recoverPanic that answers 500 but leaves the connection open
recoverPanic_NoClose(nx) ==
    IF nx.panics
    THEN [headers    |-> nx.headers,
          responses  |-> Append(nx.responses, serverErrorResponse),
          propagated |-> FALSE]
    ELSE [headers    |-> nx.headers,
          responses  |-> nx.responses,
          propagated |-> FALSE]

recoverPanic(nx) ==
    IF nx.panics
    THEN [headers    |-> ("Connection" :> "close") @@ nx.headers,
          responses  |-> Append(nx.responses, serverErrorResponse),
          propagated |-> FALSE]
    ELSE [headers    |-> nx.headers,
          responses  |-> nx.responses,
          propagated |-> FALSE]

VARIABLES
    now,         \* the clock, in ticks
    limiter,     \* the limiter captured by rateLimit: tokens and last update
    arrivals,    \* outcomes of the requests that arrived in the current tick
    fullAtTick,  \* the limiter was full when the current tick began
    passedAt,    \* per tick: requests rateLimit passed to the next handler
    rp           \* the last request served through recoverPanic

mwvars == <<now, limiter, arrivals, fullAtTick, passedAt, rp>>

vars == <<movies, nextId, req, last, won, nUpdateNil, nUpdate200,
          now, limiter, arrivals, fullAtTick, passedAt, rp, fn>>

NoRun == [served |-> FALSE, nx |-> NextRun(FALSE, <<>>, <<>>),
          res |-> recoverPanic(NextRun(FALSE, <<>>, <<>>))]

MwInit ==
    /\ now = 0
    /\ limiter = [tokens |-> BurstUnits, last |-> 0]
    /\ arrivals = <<>>
    /\ fullAtTick = TRUE
    /\ passedAt = [t \in 0..MaxTime |-> 0]
    /\ rp = NoRun

\* the clock advances by one tick
Tick ==
    /\ now < MaxTime
    /\ now' = now + 1
    /\ arrivals' = <<>>
    /\ fullAtTick' = (Advance(limiter, now + 1) = BurstUnits)
    /\ UNCHANGED <<limiter, passedAt, rp>>
    /\ UNCHANGED <<dbvars, fn>>

\* a request arrives at the handler returned by rateLimit
RateLimitServe ==
    /\ Len(arrivals) < MaxArrivals
    /\ LET h == rateLimit(limiter, now)
       IN  /\ limiter' = h.lim
           /\ arrivals' = Append(arrivals, [responses |-> h.responses, next |-> h.next])
           /\ passedAt' = [passedAt EXCEPT ![now] = @ + h.next]
    /\ UNCHANGED <<now, fullAtTick, rp>>
    /\ UNCHANGED <<dbvars, fn>>

\* a request arrives at the handler returned by recoverPanic
RecoverPanicServe ==
    /\ \E nx \in NextRuns :
         rp' = [served |-> TRUE, nx |-> nx, res |-> recoverPanic(nx)]
    /\ UNCHANGED <<now, limiter, arrivals, fullAtTick, passedAt>>
    /\ UNCHANGED <<dbvars, fn>>

(***************************************************************************)
(* Functions of their arguments alone, applied to each input               *)
(***************************************************************************)
ValidateMovieCall ==
    /\ \E movie \in ValidatedMovies :
         fn' = [op |-> "ValidateMovie", arg |-> movie, res |-> ValidateMovie(movie)]
    /\ UNCHANGED <<dbvars, mwvars>>

ValidateFiltersCall ==
    /\ \E f \in ValidatedFilters :
         fn' = [op |-> "ValidateFilters", arg |-> f, res |-> ValidateFilters(f)]
    /\ UNCHANGED <<dbvars, mwvars>>

\* updateMovieHandler, up to its X-Expected-Version check, on a movie stored
\* at version v
ExpectedVersionCheck ==
    /\ \E v \in 1..MaxHeaderVersion, header \in VersionHeaders :
         LET h == updateMovieGet(StoredAtVersion(v), NumParam(1), header, FALSE)
         IN  fn' = [op |-> "updateMovieGet",
                    arg |-> [version |-> v, header |-> header],
                    res |-> [proceed |-> h.proceed, responses |-> h.responses]]
    /\ UNCHANGED <<dbvars, mwvars>>

(***************************************************************************)
(* Specifications                                                          *)
(***************************************************************************)
Init == DbInit /\ MwInit /\ FnInit

\* the movie handlers over a database that executes every statement
Next ==
    \/ ShowMovie({FALSE}) /\ UNCHANGED <<mwvars, fn>>
    \/ DeleteMovie({FALSE}) /\ UNCHANGED <<mwvars, fn>>
    \/ CreateMovie({FALSE}) /\ UNCHANGED <<mwvars, fn>>
    \/ UpdateMovieGet({FALSE}) /\ UNCHANGED <<mwvars, fn>>
    \/ UpdateMovieWrite({FALSE}) /\ UNCHANGED <<mwvars, fn>>

Spec == Init /\ [][Next]_vars

\* the movie handlers over a database whose driver can fail a statement
NextFault ==
    \/ ShowMovie(BOOLEAN) /\ UNCHANGED <<mwvars, fn>>
    \/ DeleteMovie(BOOLEAN) /\ UNCHANGED <<mwvars, fn>>
    \/ CreateMovie(BOOLEAN) /\ UNCHANGED <<mwvars, fn>>
    \/ UpdateMovieGet(BOOLEAN) /\ UNCHANGED <<mwvars, fn>>
    \/ UpdateMovieWrite(BOOLEAN) /\ UNCHANGED <<mwvars, fn>>

SpecFault == Init /\ [][NextFault]_vars

\* the middleware
NextMw ==
    \/ Tick
    \/ RateLimitServe
    \/ RecoverPanicServe

SpecMw == Init /\ [][NextMw]_vars

\* MovieModel.GetAll over the tables that creating and deleting movies yields
NextList ==
    \/ CreateMovie({FALSE}) /\ UNCHANGED <<mwvars, fn>>
    \/ DeleteMovie({FALSE}) /\ UNCHANGED <<mwvars, fn>>
    \/ GetAllMovies(BOOLEAN) /\ UNCHANGED <<mwvars, fn>>

SpecList == Init /\ [][NextList]_vars

\* the validations and the X-Expected-Version check on each of their inputs
NextFn ==
    \/ ValidateMovieCall
    \/ ValidateFiltersCall
    \/ ExpectedVersionCheck

SpecFn == Init /\ [][NextFn]_vars

(***************************************************************************)
(* Properties                                                              *)
(***************************************************************************)
\* the row a successful Update of `a` writes over a row of version v
Written(a, v) == Row(a.ID, a.Title, a.Year, a.Runtime, a.Genres, v + 1)

\* the step taken was a call of MovieModel.Update
UpdateCalled == last'.call.op = "Update"

\* the argument of the Update call of the step taken matches a stored row
UpdateMatched ==
    /\ last'.call.arg[1].ID \in DOMAIN movies
    /\ movies[last'.call.arg[1].ID].version = last'.call.arg[1].Version

\* C1: no lost update.  Of the updateMovieHandler calls that read the same
\* version v of a movie before any of them ran its UPDATE, at most one has
\* Update return nil: it answers 200 and the stored row holds exactly what it
\* wrote; every other one gets ErrEditConflict, answers 409 and leaves the
\* table as it is.
C1_NoLostUpdate ==
    [][ UpdateCalled =>
          LET a == last'.call.arg[1]
          IN  /\ last'.call.err = NilErr =>
                   /\ a.Version \notin won[a.ID]
                   /\ last'.responses = <<writeJSON(200)>>
                   /\ a.ID \in DOMAIN movies'
                   /\ movies'[a.ID] = Written(a, a.Version)
              /\ a.Version \in won[a.ID] =>
                   /\ last'.call.err = ErrEditConflict
                   /\ last'.responses = <<editConflictResponse>>
                   /\ movies' = movies ]_vars

\* C1 witness: two calls had read the same version of a movie; one has won,
\* the other has just been answered 409 while the row is still stored
C1_Witness ==
    /\ last.call.op = "Update"
    /\ last.call.err = ErrEditConflict
    /\ last.responses = <<editConflictResponse>>
    /\ last.call.arg[1].ID \in DOMAIN movies
    /\ last.call.arg[1].Version \in won[last.call.arg[1].ID]
    /\ movies[last.call.arg[1].ID].version = last.call.arg[1].Version + 1

\* C2: Update(movie) changes the table only when a row with id = movie.ID
\* and version = movie.Version is stored; it then sets that row's title, year,
\* runtime and genres to the argument's, its version to the old version + 1,
\* leaves every other row alone, writes the new version into movie.Version
\* and returns nil.
C2_UpdateWritesMatchedRow ==
    [][ UpdateCalled =>
          LET a == last'.call.arg[1]
          IN  /\ movies' # movies => UpdateMatched
              /\ UpdateMatched =>
                   /\ movies' = [movies EXCEPT ![a.ID] = Written(a, movies[a.ID].version)]
                   /\ last'.call.res[1] = [a EXCEPT !.Version = movies[a.ID].version + 1]
                   /\ movies'[a.ID].version = last'.call.res[1].Version
                   /\ last'.call.err = NilErr ]_vars

\* C2 witness: an Update has just rewritten title, year and genres of one of
\* two stored rows and raised its version
C2_Witness ==
    /\ last.call.op = "Update"
    /\ last.call.err = NilErr
    /\ Cardinality(DOMAIN movies) = 2
    /\ movies[last.call.arg[1].ID].title = "Brazil"
    /\ movies[last.call.arg[1].ID].genres = Some(<<"scifi", "drama">>)
    /\ movies[last.call.arg[1].ID].version = last.call.arg[1].Version + 1

\* C3: an Update that finds no row with id = movie.ID and version =
\* movie.Version returns ErrEditConflict and leaves every stored row and
\* movie.Version unchanged.
C3_UpdateConflict ==
    [][ (UpdateCalled /\ ~UpdateMatched) =>
          /\ last'.call.err = ErrEditConflict
          /\ movies' = movies
          /\ last'.call.res = last'.call.arg ]_vars

\* C3 witness: Update has returned ErrEditConflict for a record that was
\* deleted after it was read, while another row is stored
C3_Witness ==
    /\ last.call.op = "Update"
    /\ last.call.err = ErrEditConflict
    /\ last.call.arg[1].ID \notin DOMAIN movies
    /\ movies # <<>>

\* C4: the stored version of every existing movie is 1 + the number of
\* Update calls on it that returned nil, and that number is the number of 200
\* responses to update requests on it.
C4_VersionCountsUpdates ==
    \A i \in DOMAIN movies :
        /\ movies[i].version = 1 + nUpdateNil[i]
        /\ nUpdate200[i] = movies[i].version - 1

\* C4 witness: a movie that has been updated twice
C4_Witness ==
    \E i \in DOMAIN movies : movies[i].version = 3 /\ nUpdate200[i] = 2

\* the error mapping of a finished show, update or delete handler call
ErrorsMapped ==
    /\ last.idErr => last.responses = <<notFoundResponse>>
    /\ last.call.err = ErrRecordNotFound => last.responses = <<notFoundResponse>>
    /\ (last.call.op = "Update" /\ last.call.err = ErrEditConflict) =>
           last.responses = <<editConflictResponse>>
    /\ last.call.err \notin {NilErr, ErrRecordNotFound, ErrEditConflict} =>
           last.responses = <<serverErrorResponse>>

HandlerFinished == last.done /\ last.kind \in {"show", "update", "delete"}

\* C8 as stated: a finished showMovieHandler, updateMovieHandler or
\* deleteMovieHandler call maps the errors as above and has written exactly
\* one response, which is the 404, the 409, the 500 or the success response.
C8_AsStated ==
    HandlerFinished =>
        /\ ErrorsMapped
        /\ Len(last.responses) = 1
        /\ last.responses[1] \in {notFoundResponse, editConflictResponse,
                                  serverErrorResponse, writeJSON(200)}

\* C8: a finished showMovieHandler, updateMovieHandler or deleteMovieHandler
\* call answers 404 to an unreadable id or ErrRecordNotFound from the model,
\* 409 to ErrEditConflict from Update, 500 to any other model error, and has
\* written exactly one response: one of these, the success response or, in
\* updateMovieHandler only, the 400 or the 422 response.
C8_ErrorMapping ==
    HandlerFinished =>
        /\ ErrorsMapped
        /\ Len(last.responses) = 1
        /\ last.responses[1] \in
             {notFoundResponse, editConflictResponse, serverErrorResponse,
              writeJSON(200)}
             \cup (IF last.kind = "update"
                   THEN {badRequestResponse, failedValidationResponse}
                   ELSE {})

\* C8 witness: deleteMovieHandler has answered 500 to a driver error
C8_Witness ==
    /\ HandlerFinished
    /\ last.kind = "delete"
    /\ last.call.op = "Delete"
    /\ last.call.err = ErrDriver
    /\ last.responses = <<serverErrorResponse>>

\* C9: Delete(id) returns ErrRecordNotFound and leaves the table unchanged
\* when id < 1 or when no stored row has that id; otherwise it removes
\* exactly the row with that id and returns nil.
C9_Delete ==
    [][ last'.call.op = "Delete" =>
          LET id == last'.call.id
          IN  IF id < 1 \/ id \notin DOMAIN movies
              THEN /\ last'.call.err = ErrRecordNotFound
                   /\ movies' = movies
              ELSE /\ last'.call.err = NilErr
                   /\ DOMAIN movies' = DOMAIN movies \ {id}
                   /\ \A i \in DOMAIN movies' : movies'[i] = movies[i] ]_vars

\* C9 witness: Delete has removed one of two stored rows
C9_Witness ==
    /\ last.call.op = "Delete"
    /\ last.call.err = NilErr
    /\ last.call.id \notin DOMAIN movies
    /\ Cardinality(DOMAIN movies) = 1
    /\ nextId = 3

\* C10: Get(id) returns ErrRecordNotFound when id < 1 or when no stored row
\* has that id; otherwise it returns a record whose id, title, year, runtime,
\* genres and version are the stored row's; the table is the same after Get.
C10_Get ==
    [][ last'.call.op = "Get" =>
          LET id == last'.call.id
          IN  /\ movies' = movies
              /\ IF id < 1 \/ id \notin DOMAIN movies
                 THEN /\ last'.call.err = ErrRecordNotFound
                      /\ last'.call.res = None
                 ELSE /\ last'.call.err = NilErr
                      /\ last'.call.res =
                           Some(Movie(movies[id].id, movies[id].title,
                                      movies[id].year, movies[id].runtime,
                                      movies[id].genres, movies[id].version)) ]_vars

\* C10 witness: Get has returned a movie that was updated before
C10_Witness ==
    /\ last.call.op = "Get"
    /\ last.call.err = NilErr
    /\ last.call.res # None
    /\ last.call.res[1].Version = 2
    /\ last.call.res[1].Runtime = 97

\* the movie createMovieHandler builds from a decoded input
InputMovie(input) ==
    Movie(0, input.Title, input.Year, input.Runtime, input.Genres, 0)

\* C11: createMovieHandler never inserts an undecodable or invalid movie: when
\* readJSON fails it answers 400, when ValidateMovie records an error it
\* answers 422, and in both cases Insert is not called and the table and its
\* id sequence are unchanged.
C11_CreateRejectsInvalid ==
    [][ last'.kind = "create" =>
          /\ last'.input = None =>
                /\ last'.responses = <<badRequestResponse>>
                /\ last'.call = NoCall
                /\ movies' = movies /\ nextId' = nextId
          /\ (last'.input # None /\ ~Valid(ValidateMovie(InputMovie(last'.input[1])))) =>
                /\ last'.responses = <<failedValidationResponse>>
                /\ last'.call = NoCall
                /\ movies' = movies /\ nextId' = nextId ]_vars

\* C11 witness: a create request with an invalid movie has been answered 422
\* while a movie is stored
C11_Witness ==
    /\ last.kind = "create"
    /\ last.input # None
    /\ last.input[1].Title = ""
    /\ last.responses = <<failedValidationResponse>>
    /\ last.call = NoCall
    /\ movies # <<>>

\* C12: createMovieHandler with a decodable body that passes ValidateMovie
\* calls Insert, which adds exactly one record, carrying the input's title,
\* year, runtime and genres, and leaves the other records alone; the handler
\* answers 201 with Location = "/v1/movies/<id>", <id> the id of the new
\* record, and the body carries that id and the stored version.
C12_CreateInserts ==
    [][ (/\ last'.kind = "create"
         /\ last'.input # None
         /\ Valid(ValidateMovie(InputMovie(last'.input[1])))) =>
          LET input == last'.input[1]
              new == DOMAIN movies' \ DOMAIN movies
          IN  /\ last'.call.op = "Insert"
              /\ Cardinality(new) = 1
              /\ \A i \in DOMAIN movies : i \in DOMAIN movies' /\ movies'[i] = movies[i]
              /\ last'.responses = <<writeJSON(201)>>
              /\ last'.body # None
              /\ \A id \in new :
                    /\ movies'[id].id = id
                    /\ movies'[id].title = input.Title
                    /\ movies'[id].year = input.Year
                    /\ movies'[id].runtime = input.Runtime
                    /\ movies'[id].genres = input.Genres
                    /\ last'.location = Some("/v1/movies/" \o FormatInt(id, 10))
                    /\ last'.body[1].ID = id
                    /\ last'.body[1].Version = movies'[id].version ]_vars

\* C12 witness: the second movie has been created and answered 201 with its
\* Location
C12_Witness ==
    /\ last.kind = "create"
    /\ last.responses = <<writeJSON(201)>>
    /\ last.location = Some("/v1/movies/2")
    /\ 2 \in DOMAIN movies
    /\ movies[2].title = "Alien"
    /\ last.body # None
    /\ last.body[1].ID = 2

\* C13: the record updateMovieHandler passes to Update has, for each of title,
\* year, runtime and genres, the value read from the table when the input
\* field is nil and the supplied value otherwise; its id and version are the
\* ones read.
C13_PartialUpdate ==
    [][ UpdateCalled =>
          LET r == last'.read[1]
              input == last'.input[1]
              a == last'.call.arg[1]
          IN  /\ a.Title = IF input.Title = None THEN r.Title ELSE input.Title[1]
              /\ a.Year = IF input.Year = None THEN r.Year ELSE input.Year[1]
              /\ a.Runtime = IF input.Runtime = None THEN r.Runtime ELSE input.Runtime[1]
              /\ a.Genres = IF input.Genres = None THEN r.Genres ELSE input.Genres
              /\ a.ID = r.ID
              /\ a.Version = r.Version ]_vars

\* C13 witness: Update has been called for a body with only a runtime on a
\* movie whose title and year an earlier update had set
C13_Witness ==
    /\ last.call.op = "Update"
    /\ last.input # None
    /\ last.input[1].Title = None /\ last.input[1].Year = None
    /\ last.input[1].Runtime = Some(97)
    /\ last.read # None
    /\ last.read[1].Title = "Brazil"
    /\ last.call.arg[1].Title = "Brazil"
    /\ last.call.arg[1].Year = 1985
    /\ last.call.arg[1].Runtime = 97

\* C14: with a non-empty X-Expected-Version header, updateMovieHandler lets a
\* request pass whose header is the decimal numeral of the movie's stored
\* version, and answers 409, without going on to the body and Update, a
\* request whose header is the decimal numeral of any other version.
C14_ExpectedVersion ==
    (fn.op = "updateMovieGet" /\ fn.arg.header # "") =>
        /\ fn.arg.header = FormatInt(fn.arg.version, 10) =>
               (fn.res.proceed /\ fn.res.responses = <<>>)
        /\ (\E u \in 1..MaxHeaderVersion :
               u # fn.arg.version /\ fn.arg.header = FormatInt(u, 10)) =>
               (~fn.res.proceed /\ fn.res.responses = <<editConflictResponse>>)

\* the fields of a movie that pass the checks of ValidateMovie
TitleOk(m) == m.Title # "" /\ Len(m.Title) <= 500

YearOk(m) == m.Year # 0 /\ m.Year >= 1888 /\ m.Year <= CurrentYear

RuntimeOk(m) == m.Runtime > 0

GenresOk(m) ==
    /\ m.Genres # None
    /\ Len(m.Genres[1]) \in 1..5
    /\ Cardinality({m.Genres[1][i] : i \in 1..Len(m.Genres[1])}) = Len(m.Genres[1])

\* C15: ValidateMovie leaves the validator valid exactly for the movies with
\* a non-empty title of at most 500 bytes, a year that is not 0, not before
\* 1888 and not after the current year, a runtime > 0 and non-nil genres of 1
\* to 5 entries without duplicates; a movie that violates one of these has an
\* error under the key of the violated field.
C15_ValidateMovie ==
    fn.op = "ValidateMovie" =>
        LET m == fn.arg
            errs == fn.res
        IN  /\ Valid(errs) <=> (TitleOk(m) /\ YearOk(m) /\ RuntimeOk(m) /\ GenresOk(m))
            /\ ~TitleOk(m) => "title" \in DOMAIN errs
            /\ ~YearOk(m) => "year" \in DOMAIN errs
            /\ ~RuntimeOk(m) => "runtime" \in DOMAIN errs
            /\ ~GenresOk(m) => "genres" \in DOMAIN errs

\* C15 witness: ValidateMovie has recorded errors under year and genres, and
\* under nothing else, for a movie of next year with six genres
C15_Witness ==
    /\ fn.op = "ValidateMovie"
    /\ fn.arg.Title = "Alien"
    /\ fn.arg.Year = CurrentYear + 1
    /\ fn.arg.Runtime = 1
    /\ fn.arg.Genres # None
    /\ Len(fn.arg.Genres[1]) = 6
    /\ DOMAIN fn.res = {"year", "genres"}

\* C16: ValidateFilters leaves the validator valid exactly when 1 <= Page <=
\* 10,000,000, 1 <= PageSize <= 100 and Sort is one of SortSafelist; a Page out
\* of bounds is recorded under page, a PageSize out of bounds under page_size,
\* a Sort outside the safelist under sort.
C16_ValidateFilters ==
    fn.op = "ValidateFilters" =>
        LET f == fn.arg
            errs == fn.res
            pageOk == 1 <= f.Page /\ f.Page <= 10000000
            sizeOk == 1 <= f.PageSize /\ f.PageSize <= 100
            sortOk == f.Sort \in {f.SortSafelist[i] : i \in 1..Len(f.SortSafelist)}
        IN  /\ Valid(errs) <=> (pageOk /\ sizeOk /\ sortOk)
            /\ ~pageOk => "page" \in DOMAIN errs
            /\ ~sizeOk => "page_size" \in DOMAIN errs
            /\ ~sortOk => "sort" \in DOMAIN errs

\* C16 witness: ValidateFilters has recorded errors under page_size and sort
\* only, for page 10,000,000 with page size 101 and an unlisted sort key
C16_Witness ==
    /\ fn.op = "ValidateFilters"
    /\ fn.arg.Page = 10000000
    /\ fn.arg.PageSize = 101
    /\ fn.arg.Sort = "rating"
    /\ DOMAIN fn.res = {"page_size", "sort"}

\* a movie matches the filters: an empty title and an empty genres list
\* filter nothing
MatchesFilters(m, title, genres) ==
    /\ title = "" \/ m.Title = title
    /\ \A k \in 1..Len(genres) :
          m.Genres # None /\ \E j \in 1..Len(m.Genres[1]) : m.Genres[1][j] = genres[k]

\* the value a movie is sorted by (the numeric columns)
SortKey(m, column) ==
    CASE column = "id" -> m.ID
      [] column = "year" -> m.Year
      [] column = "runtime" -> m.Runtime

Max(a, b) == IF a >= b THEN a ELSE b

\* C17: GetAll(title, genres, filters) returns only movies matching the title
\* and genres filters, ordered by filters.sortColumn() in direction
\* filters.sortDirection(), and at most filters.limit() of them, starting at
\* position filters.offset() of the ordered matching movies.
C17_ListFiltersSortsPaginates ==
    (last.call.op = "GetAll" /\ last.call.err = NilErr) =>
        LET arg == last.call.arg[1]
            res == last.call.res[1]
            f == arg.filters
            column == sortColumn(f).column
            matching == {i \in DOMAIN movies :
                           MatchesFilters(Movie(movies[i].id, movies[i].title,
                                                movies[i].year, movies[i].runtime,
                                                movies[i].genres, movies[i].version),
                                          arg.title, arg.genres)}
        IN  /\ \A k \in 1..Len(res) : MatchesFilters(res[k], arg.title, arg.genres)
            /\ \A k, l \in 1..Len(res) :
                  k < l => IF sortDirection(f) = "ASC"
                           THEN SortKey(res[k], column) <= SortKey(res[l], column)
                           ELSE SortKey(res[k], column) >= SortKey(res[l], column)
            /\ Len(res) <= limit(f)
            /\ Len(res) = Min(limit(f), Max(0, Cardinality(matching) - offset(f)))

\* C18: a GetAll that returns nil as its error returns a non-nil list that
\* holds every stored movie exactly once, in ascending id order (the empty
\* list for an empty table); GetAll never changes the table.
C18_GetAllReturnsAll ==
    [][ last'.call.op = "GetAll" =>
          /\ movies' = movies
          /\ last'.call.err = NilErr =>
                /\ last'.call.res # None
                /\ LET res == last'.call.res[1]
                   IN  /\ Len(res) = Cardinality(DOMAIN movies)
                       /\ movies = <<>> => res = <<>>
                       /\ \A i \in DOMAIN movies :
                             \E k \in 1..Len(res) :
                                res[k] = Movie(movies[i].id, movies[i].title,
                                               movies[i].year, movies[i].runtime,
                                               movies[i].genres, movies[i].version)
                       /\ \A k, l \in 1..Len(res) : k < l => res[k].ID < res[l].ID ]_vars

\* C18 witness: GetAll has returned the two stored movies, movie 1 first
C18_Witness ==
    /\ last.call.op = "GetAll"
    /\ last.call.err = NilErr
    /\ last.call.res # None
    /\ Len(last.call.res[1]) = 2
    /\ last.call.res[1][1].ID = 1
    /\ last.call.res[1][2].ID = 2
    /\ DOMAIN movies = {1, 2}

\* what rateLimit does with a request it lets through, and with one it stops
Passed == [responses |-> <<>>, next |-> 1]
Stopped == [responses |-> <<rateLimitExceededResponse>>, next |-> 0]

\* C5: of the requests that arrive in one tick at a full limiter, exactly the
\* first 4 are passed to the next handler; the 5th and every later one is
\* answered 429 and the next handler is not called for it.
C5_BurstOfFour ==
    fullAtTick =>
        \A i \in 1..Len(arrivals) :
            arrivals[i] = IF i <= 4 THEN Passed ELSE Stopped

\* C5 witness: six requests have arrived in one tick at a limiter that had
\* been used before and was full again
C5_Witness ==
    /\ fullAtTick
    /\ now > 0
    /\ passedAt[0] > 0
    /\ Len(arrivals) = 6
    /\ arrivals[4] = Passed
    /\ arrivals[5] = Stopped

\* the requests passed to the next handler in the ticks s..e
RECURSIVE PassedIn(_, _)
PassedIn(s, e) == IF s > e THEN 0 ELSE passedAt[s] + PassedIn(s + 1, e)

\* C6: in every interval of t seconds (e - s ticks) at most 4 + 2*t requests
\* are passed to the next handler, and the tokens of the limiter are never
\* more than 4 and never fewer than 0.
C6_RateBound ==
    /\ \A s \in 0..now : \A e \in s..now :
          PassedIn(s, e) * TicksPerSecond <= 4 * TicksPerSecond + 2 * (e - s)
    /\ limiter.tokens >= 0
    /\ limiter.tokens <= 4 * TokenUnit
    /\ Advance(limiter, now) >= 0
    /\ Advance(limiter, now) <= 4 * TokenUnit

\* C6 witness: an interval longer than a second in which 4 + 2*t requests
\* were passed
C6_Witness ==
    \E s \in 0..now : \E e \in s..now :
        /\ e - s > TicksPerSecond
        /\ PassedIn(s, e) * TicksPerSecond = 4 * TicksPerSecond + 2 * (e - s)

\* C7: when the wrapped handler panics, recoverPanic does not let the panic
\* through, sets Connection: close and calls serverErrorResponse once; when
\* it does not panic, the headers and responses are the wrapped handler's.
C7_RecoverPanic ==
    rp.served =>
        /\ ~rp.res.propagated
        /\ rp.nx.panics =>
             /\ "Connection" \in DOMAIN rp.res.headers
             /\ rp.res.headers["Connection"] = "close"
             /\ \A k \in DOMAIN rp.nx.headers \ {"Connection"} :
                    rp.res.headers[k] = rp.nx.headers[k]
             /\ rp.res.responses = Append(rp.nx.responses, serverErrorResponse)
        /\ ~rp.nx.panics =>
             /\ rp.res.headers = rp.nx.headers
             /\ rp.res.responses = rp.nx.responses

\* C7 witness: the wrapped handler asked to keep the connection alive and
\* panicked before it wrote a response
C7_Witness ==
    /\ rp.served
    /\ rp.nx.panics
    /\ rp.nx.responses = <<>>
    /\ rp.nx.headers = ("Connection" :> "keep-alive")
    /\ rp.res.responses = <<serverErrorResponse>>

====
